---- MODULE Spec2Model ----
(***************************************************************************)
(* Model of the HTTP servers of sprint1.                                   *)
(*                                                                         *)
(*   - async_server/solution/src/http_server.{h,cpp}: Listener,            *)
(*     SessionBase and Session<RequestHandler>, driven by an io_context    *)
(*     whose worker threads run completion handlers; every session's       *)
(*     socket is bound to its own strand.                                  *)
(*   - sync_server/solution/src/main.cpp: HandleRequest and                *)
(*     MakeStringResponse, the request handler policy.                     *)
(*                                                                         *)
(*   - unnamed/part_000: Cafeteria::OrderHotDog, which cooks the bread and  *)
(*     the sausage of an order on two timers of the same io_context.       *)
(*                                                                         *)
(* Texts (targets, bodies) are sequences of one-character strings, so that *)
(* lengths and concatenations are computed and not assumed.                *)
(***************************************************************************)
EXTENDS Integers, Sequences, FiniteSets, TLC

(* ------------------------------ bounds --------------------------------- *)

\* Connections the listener accepts in one run.
MaxSessions == 2

\* Requests all clients together send in one run.
MaxRequests == 2

\* Largest worker-thread count of the io_context that is tried; the other
\* one tried is a single thread.
MaxThreads == 2

\* Longest raw request target tried on HandleRequest.
MaxTargetLen == 3

\* Calls of Cafeteria::OrderHotDog in one run.
MaxOrders == 2

(* ------------------------- program constants --------------------------- *)

\* stream_.expires_after(30s)
IdleTimeout == 30

\* http::status::ok, http::status::method_not_allowed
StatusOk == 200

StatusMethodNotAllowed == 405

\* HTTP versions as Beast numbers them: 10 is HTTP/1.0, 11 is HTTP/1.1.
Http10 == 10

Http11 == 11

\* A steady timer that was never armed (no expires_after yet).
NoTimer == -1

\* A response on which content_length() was never called.
NoLength == -1

\* An id that was not taken yet, and the hot dog of a result that has none.
NoId == -1

(* ------------------------------ texts ---------------------------------- *)

\* ContentType::TEXT_HTML
TEXT_HTML == "text/html"

\* The literal "Hello, " of HandleRequest.
HelloPrefix == <<"H", "e", "l", "l", "o", ",", " ">>

\* The literal "Invalid method."sv of HandleRequest.
InvalidMethodBody ==
    <<"I", "n", "v", "a", "l", "i", "d", " ", "m", "e", "t", "h", "o", "d", ".">>

\* The literal "GET, HEAD" of HandleRequest.
AllowGetHead == "GET, HEAD"

TargetChars == {"/", "a"}

RECURSIVE TextsUpTo(_)
TextsUpTo(n) ==
    IF n = 0 THEN {<<>>}
    ELSE LET shorter == TextsUpTo(n - 1)
         IN  shorter \cup {Append(t, c) : t \in {u \in shorter : Len(u) = n - 1},
                                          c \in TargetChars}

Targets == TextsUpTo(MaxTargetLen)

Methods == {"GET", "HEAD", "POST", "DELETE"}

Versions == {Http10, Http11}

\* Value of the Connection header field; "none" when the field is absent.
ConnectionTokens == {"none", "close", "keep-alive"}

(* ---------------------------- HTTP messages ---------------------------- *)

Requests ==
    [method : Methods, target : Targets, version : Versions,
     connection : ConnectionTokens]

\* request_ = {} : a default-constructed request.
NoReq == [method |-> "", target |-> <<>>, version |-> Http11, connection |-> "none"]

\* No response object.
NoResp ==
    [status |-> 0, version |-> Http11, connection |-> "none", content_type |-> "",
     allow |-> "", body |-> <<>>, content_length |-> NoLength]

\* message::keep_alive() const : the negotiated keep-alive of a message.
KeepAlive(msg) ==
    IF msg.version = Http11
    THEN msg.connection # "close"
    ELSE msg.connection = "keep-alive"

\* Mutant of SetKeepAlive: the Connection field is set as for HTTP/1.1
\* whatever the version of the response.
SetKeepAliveAsHttp11(version, value) == IF value THEN "none" ELSE "close"

\* message::keep_alive(bool) : the Connection field that a response of the
\* given version gets.
SetKeepAlive(version, value) ==
    IF version = Http11
    THEN (IF value THEN "none" ELSE "close")
    ELSE (IF value THEN "keep-alive" ELSE "none")

\* StringResponse response(status, http_version);
NewResponse(status, version) ==
    [status |-> status, version |-> version, connection |-> "none",
     content_type |-> "", allow |-> "", body |-> <<>>, content_length |-> NoLength]

\* MakeStringResponse with the default content type.
MakeStringResponse(status, body, http_version, keep_alive) ==
    [NewResponse(status, http_version) EXCEPT
        !.content_type = TEXT_HTML,
        !.body = body,
        !.content_length = Len(body),
        !.connection = SetKeepAlive(http_version, keep_alive)]

\* Mutant of StripLeadingSlash: the leading '/' is kept.
StripNothing(target) == target

\* if (!target.empty() && target.front() == '/') target.erase(0, 1);
StripLeadingSlash(target) ==
    IF target # <<>> /\ Head(target) = "/"
    THEN SubSeq(target, 2, Len(target))
    ELSE target

\* The GET branch of HandleRequest.
GetResponse(req) ==
    MakeStringResponse(StatusOk, HelloPrefix \o StripLeadingSlash(req.target),
                       req.version, KeepAlive(req))

\* Mutant of HeadResponse: Content-Length taken from the empty body sent.
HeadResponseOfEmptyBody(req) ==
    MakeStringResponse(StatusOk, <<>>, req.version, KeepAlive(req))

\* The HEAD branch of HandleRequest.
HeadResponse(req) ==
    [NewResponse(StatusOk, req.version) EXCEPT
        !.content_type = TEXT_HTML,
        !.content_length = Len(HelloPrefix \o StripLeadingSlash(req.target)),
        !.connection = SetKeepAlive(req.version, KeepAlive(req))]

\* Mutant of OtherResponse: the Allow header is not set.
OtherResponseNoAllow(req) ==
    MakeStringResponse(StatusMethodNotAllowed, InvalidMethodBody, req.version,
                       KeepAlive(req))

\* The else branch of HandleRequest.
OtherResponse(req) ==
    [NewResponse(StatusMethodNotAllowed, req.version) EXCEPT
        !.content_type = TEXT_HTML,
        !.allow = AllowGetHead,
        !.body = InvalidMethodBody,
        !.content_length = Len(InvalidMethodBody),
        !.connection = SetKeepAlive(req.version, KeepAlive(req))]

HandleRequest(req) ==
    IF req.method = "GET" THEN GetResponse(req)
    ELSE IF req.method = "HEAD" THEN HeadResponse(req)
    ELSE OtherResponse(req)

\* Mutant of NeedEof: every response asks for the connection to be closed.
NeedEofAlways(resp) == TRUE

\* message::need_eof() of a response: with a Content-Length the connection
\* is closed exactly when the response is not keep-alive; without one the
\* end of the body can only be signalled by closing.
NeedEof(resp) ==
    IF resp.content_length # NoLength THEN ~KeepAlive(resp) ELSE TRUE

(* ------------------------------- state --------------------------------- *)

VARIABLES
    hreq,        \* HandleRequest under test: its argument
    hresp,       \* HandleRequest under test: its result, NoResp before the call
    nthreads,    \* worker threads running the io_context
    accepting,   \* an async_accept of the listener is outstanding
    created,     \* sessions created so far; they are 1..created
    acceptErrs,  \* ReportError(ec, "accept") calls
    issued,      \* async_accept operations the listener has issued
    conn,        \* per session: the accept operation whose socket it owns, 0 if none
    recvd,       \* per session: requests received from the peer, in order
    nparsed,     \* per session: reads completed with a parsed request
    peer,        \* per session: "open", or "eof" once the peer's end of stream was read
    ops,         \* per session: asynchronous operations outstanding
    queue,       \* per session: completion handlers ready on its strand
    exec,        \* per session: callback running on its strand, "none" if none
    cb,          \* per session: where the handler's completion callback is
    offWrite,    \* per session: foreign threads that are inside Write
    cbInvoked,   \* per session: callbacks a task has invoked and still owns
    request_,    \* per session: SessionBase::request_
    handled,     \* per session: request the handler is working on
    wresp,       \* per session: safe_response of the write in flight
    timer,       \* per session: the deadline armed on the stream, NoTimer if none
    refs,        \* per session: strong references (shared_ptr use count)
    reads,       \* per session: async_read operations issued
    writes,      \* per session: async_write operations issued
    shutdowns,   \* per session: Close() calls
    reports,     \* per session: lines written by ReportError
    sent,        \* per session: responses completely written, in order
    ordered,     \* OrderHotDog calls begun so far; the orders are 1..ordered
    next_id_,    \* Cafeteria::next_id_
    call,        \* per order: how far its OrderHotDog call has got
    bread_id,    \* per order: bread_id, NoId until taken
    sausage_id,  \* per order: sausage_id, NoId until taken
    hotdog_id,   \* per order: hotdog_id, NoId until taken
    cook,        \* per order and ingredient: how far its cooking has got
    bread_done,  \* per order: *bread_done
    sausage_done, \* per order: *sausage_done
    delivered    \* per order: invocations of the order's handler, in order

hvars == <<hreq, hresp>>

lvars == <<nthreads, accepting, created, acceptErrs, issued, conn>>

cvars == <<recvd, nparsed, peer>>

svars == <<ops, queue, exec, cb, offWrite, cbInvoked, request_, handled, wresp, timer, refs,
           reads, writes, shutdowns, reports, sent>>

kvars == <<ordered, next_id_, call, bread_id, sausage_id, hotdog_id, cook,
           bread_done, sausage_done, delivered>>

vars == <<hvars, lvars, cvars, svars, kvars>>

\* Sessions, numbered in the order the listener accepts their connections.
Sessions == 1 .. MaxSessions

\* Orders, numbered in the order of the OrderHotDog calls.
Orders == 1 .. MaxOrders


\* Requests the peers of the server send (the end-to-end scenario's two).
ClientRequests ==
    {[method |-> "GET", target |-> <<"/", "a">>, version |-> Http11,
      connection |-> "none"],
     [method |-> "GET", target |-> <<"/">>, version |-> Http11,
      connection |-> "close"]}

\* Error codes a completed read carries; "error" is any failure other than
\* end of stream and the deadline (connection reset, malformed request).
ReadCodes == {"ok", "end_of_stream", "timeout", "error"}

\* Error codes a completed write carries; "error" is any failure other than
\* the deadline (connection reset, broken pipe).
WriteCodes == {"ok", "timeout", "error"}

\* A completion handler bound to a session and ready to run on its strand.
Handler(h, ec, resp) == [h |-> h, ec |-> ec, resp |-> resp]

(* --------------------------- initial state ----------------------------- *)

\* Listener::Run has issued the first async_accept; no session exists.
InitServer ==
    /\ accepting = TRUE
    /\ created = 0
    /\ acceptErrs = 0
    /\ issued = 1
    /\ conn = [s \in Sessions |-> 0]
    /\ recvd = [s \in Sessions |-> <<>>]
    /\ nparsed = [s \in Sessions |-> 0]
    /\ peer = [s \in Sessions |-> "open"]
    /\ ops = [s \in Sessions |-> {}]
    /\ queue = [s \in Sessions |-> <<>>]
    /\ exec = [s \in Sessions |-> "none"]
    /\ cb = [s \in Sessions |-> "none"]
    /\ offWrite = [s \in Sessions |-> 0]
    /\ cbInvoked = [s \in Sessions |-> 0]
    /\ request_ = [s \in Sessions |-> NoReq]
    /\ handled = [s \in Sessions |-> NoReq]
    /\ wresp = [s \in Sessions |-> NoResp]
    /\ timer = [s \in Sessions |-> NoTimer]
    /\ refs = [s \in Sessions |-> 0]
    /\ reads = [s \in Sessions |-> 0]
    /\ writes = [s \in Sessions |-> 0]
    /\ shutdowns = [s \in Sessions |-> 0]
    /\ reports = [s \in Sessions |-> <<>>]
    /\ sent = [s \in Sessions |-> <<>>]

\* A Cafeteria just constructed: no order yet.
InitCafeteria ==
    /\ ordered = 0
    /\ next_id_ = 0
    /\ call = [o \in Orders |-> "none"]
    /\ bread_id = [o \in Orders |-> NoId]
    /\ sausage_id = [o \in Orders |-> NoId]
    /\ hotdog_id = [o \in Orders |-> NoId]
    /\ cook = [o \in Orders |-> [bread |-> "none", sausage |-> "none"]]
    /\ bread_done = [o \in Orders |-> FALSE]
    /\ sausage_done = [o \in Orders |-> FALSE]
    /\ delivered = [o \in Orders |-> <<>>]

Init ==
    /\ hreq = NoReq
    /\ hresp = NoResp
    /\ nthreads \in {1, MaxThreads}
    /\ InitServer
    /\ InitCafeteria

(* ---------------------------- scheduling ------------------------------- *)

\* Worker threads that are inside a completion handler.  Only OnRead stays
\* on its thread across steps: it runs the request handler synchronously.
Busy == Cardinality({s \in Sessions : exec[s] # "none"})

\* io_context::run on some worker thread can take the next ready handler.
ThreadFree == Busy < nthreads

\* Mutant of StrandIdle: one strand shared by all the sessions.
SharedStrandIdle(s) == \A t \in Sessions : exec[t] = "none"

\* net::make_strand(ioc_) per accepted socket: the strand of session s runs
\* one handler at a time and is independent of the other sessions' strands.
StrandIdle(s) == exec[s] = "none"

\* The next ready handler of session s can be invoked.
CanRun(s) ==
    /\ s <= created
    /\ queue[s] # <<>>
    /\ StrandIdle(s)
    /\ ThreadFree

\* Requests received so far on the connections in S.
RECURSIVE SentOn(_)
SentOn(S) ==
    IF S = {} THEN 0
    ELSE LET s == CHOOSE x \in S : TRUE
         IN  Len(recvd[s]) + SentOn(S \ {s})


(* ------------------------------ listener ------------------------------- *)

\* Mutant of DoAccept: no accept is issued.
DoAcceptNever == accepting' = FALSE /\ issued' = issued

\* Listener::DoAccept: issue one async_accept on a fresh strand.
DoAccept == accepting' = TRUE /\ issued' = issued + 1

\* SessionBase::Read: reset request_, arm the deadline, issue async_read
\* with a handler that holds a new reference to the session.
Read(s) ==
    /\ request_' = [request_ EXCEPT ![s] = NoReq]
    /\ timer' = [timer EXCEPT ![s] = IdleTimeout]
    /\ ops' = [ops EXCEPT ![s] = @ \cup {"read"}]
    /\ reads' = [reads EXCEPT ![s] = @ + 1]

\* SessionBase::Run, called in the accept handler on a thread of the
\* io_context: net::dispatch to the session's strand, which is idle, runs
\* Read in place.  When Run returns the read's handler holds a reference.
Run(s) ==
    /\ Read(s)
    /\ refs' = [refs EXCEPT ![s] = @ + 1]

\* Listener::AsyncRunSession: make the session s that owns the socket of
\* accept operation a, and Run it; the temporary shared_ptr is gone when it
\* returns.
AsyncRunSession(s, a) ==
    /\ created' = s
    /\ conn' = [conn EXCEPT ![s] = a]
    /\ Run(s)

\* Listener::OnAccept for the completed async_accept, which is the last one
\* issued; a run has at most MaxSessions accept completions.  On success
\* AsyncRunSession makes and starts the session, then DoAccept issues the
\* next accept.  On error the handler returns after ReportError.
OnAccept(ec) ==
    /\ accepting
    /\ ThreadFree
    /\ created + acceptErrs < MaxSessions
    /\ IF ec # "ok"
       THEN /\ acceptErrs' = acceptErrs + 1
            /\ accepting' = FALSE
            /\ UNCHANGED <<created, conn, issued, ops, request_, timer, refs, reads>>
       ELSE /\ AsyncRunSession(created + 1, issued)
            /\ DoAccept
            /\ UNCHANGED acceptErrs
    /\ UNCHANGED <<hvars, kvars, nthreads, cvars, queue, exec, cb, offWrite, cbInvoked,
                   handled, wresp, writes, shutdowns, reports, sent>>

(* ------------------------- I/O completions ----------------------------- *)

\* The outstanding http::async_read of session s completes with ec and its
\* handler, bound to OnRead, becomes ready on the strand.
\*   ok            : the peer's next request r has arrived and is parsed into
\*                   request_; a peer sends nothing after a request that
\*                   asks to close the connection, and a run has at most
\*                   MaxRequests requests;
\*   end_of_stream : the peer has shut down its sending side after a
\*                   complete request or before the first;
\*   timeout       : the deadline armed by Read passed and aborted the read;
\*   error         : any other failure (connection reset, malformed request).
ReadComplete(s, ec, r) ==
    /\ "read" \in ops[s]
    /\ CASE ec = "ok" ->
              /\ recvd[s] # <<>> => KeepAlive(recvd[s][Len(recvd[s])])
              /\ SentOn(Sessions) < MaxRequests
              /\ recvd' = [recvd EXCEPT ![s] = Append(@, r)]
              /\ request_' = [request_ EXCEPT ![s] = r]
              /\ nparsed' = [nparsed EXCEPT ![s] = @ + 1]
              /\ UNCHANGED peer
         [] ec = "end_of_stream" ->
              /\ peer' = [peer EXCEPT ![s] = "eof"]
              /\ UNCHANGED <<recvd, request_, nparsed>>
         [] ec = "timeout" ->
              /\ timer[s] # NoTimer
              /\ UNCHANGED <<recvd, request_, nparsed, peer>>
         [] OTHER ->
              UNCHANGED <<recvd, request_, nparsed, peer>>
    /\ ops' = [ops EXCEPT ![s] = @ \ {"read"}]
    /\ queue' = [queue EXCEPT ![s] = Append(@, Handler("OnRead", ec, NoResp))]
    /\ UNCHANGED <<hvars, kvars, lvars, exec, cb, offWrite, cbInvoked, handled, wresp,
                   timer, refs, reads, writes, shutdowns, reports, sent>>

\* The outstanding http::async_write of session s completes with ec and the
\* lambda of Write becomes ready on the strand.  Write arms no deadline of
\* its own: the one armed by the last Read is still the stream's deadline
\* and, once passed, aborts the write with a timeout.  The operation may
\* complete while the thread that called Write is still inside the call or
\* still owns the callback.
WriteComplete(s, ec) ==
    /\ "write" \in ops[s]
    /\ ec = "timeout" => timer[s] # NoTimer
    /\ sent' = [sent EXCEPT ![s] = IF ec = "ok" THEN Append(@, wresp[s]) ELSE @]
    /\ ops' = [ops EXCEPT ![s] = @ \ {"write"}]
    /\ queue' = [queue EXCEPT ![s] = Append(@, Handler("OnWrite", ec, wresp[s]))]
    /\ wresp' = [wresp EXCEPT ![s] = NoResp]
    /\ UNCHANGED <<hvars, kvars, lvars, cvars, exec, cb, offWrite, cbInvoked, request_, handled,
                   timer, refs, reads, writes, shutdowns, reports>>

(* ------------------------------ session -------------------------------- *)

\* Mutant of Close: the send half is not shut down.
CloseWithoutShutdown(s) == shutdowns' = shutdowns

\* SessionBase::Close: shutdown(shutdown_send).
Close(s) ==
    shutdowns' = [shutdowns EXCEPT ![s] = @ + 1]

\* Mutant of ReportError: nothing is written.
ReportNothing(s, ec, what) == reports' = reports

\* ReportError(ec, what) for session s: one line "what: message of ec".
ReportError(s, ec, what) ==
    reports' = [reports EXCEPT ![s] = Append(@, [what |-> what, ec |-> ec])]

\* Mutant of Release: the holder's reference is never dropped.
ReleaseLeaks(s) == refs' = refs /\ timer' = timer

\* A holder of a reference to session s goes out of scope (a finished
\* handler, Write's local self, the callback a task destroys).  When it was
\* the last one the session is destroyed, and the stream with its deadline.
Release(s) ==
    /\ refs' = [refs EXCEPT ![s] = @ - 1]
    /\ timer' = [timer EXCEPT ![s] = IF refs[s] = 1 THEN NoTimer ELSE @]

\* Mutant of Write: the response is not kept for the asynchronous write, so
\* what is written is no longer the handler's response.
WriteDangling(s, response) ==
    /\ wresp' = [wresp EXCEPT ![s] = NoResp]
    /\ ops' = [ops EXCEPT ![s] = @ \cup {"write"}]
    /\ writes' = [writes EXCEPT ![s] = @ + 1]

\* SessionBase::Write: move the response to the heap and issue async_write
\* with a handler that holds the response and a new reference.
Write(s, response) ==
    /\ wresp' = [wresp EXCEPT ![s] = response]
    /\ ops' = [ops EXCEPT ![s] = @ \cup {"write"}]
    /\ writes' = [writes EXCEPT ![s] = @ + 1]

\* Mutant of IsEndOfStream: end of stream is not told from other errors.
IsEndOfStreamNever(ec) == FALSE

\* ec == http::error::end_of_stream
IsEndOfStream(ec) == ec = "end_of_stream"

\* Mutant of Failed: only the deadline counts as a failure.
FailedOnlyByTimeout(ec) == ec = "timeout"

\* if (ec) : the operation completed with an error.
Failed(ec) == ec # "ok"

\* SessionBase::OnRead up to the call of the request handler.  On
\* end_of_stream it closes, on any other error it reports; both return and
\* drop the handler's reference.  Otherwise Session::HandleRequest passes
\* request_ (as an rvalue reference: request_ itself is left as parsed) to
\* the request handler together with a callback that holds a reference, and
\* the handler starts running on this thread.
OnRead(s) ==
    /\ CanRun(s)
    /\ Head(queue[s]).h = "OnRead"
    /\ queue' = [queue EXCEPT ![s] = Tail(@)]
    /\ LET ec == Head(queue[s]).ec
       IN  IF IsEndOfStream(ec)
           THEN /\ Close(s)
                /\ Release(s)
                /\ UNCHANGED <<exec, cb, request_, handled, reports>>
           ELSE IF Failed(ec)
           THEN /\ ReportError(s, ec, "read")
                /\ Release(s)
                /\ UNCHANGED <<exec, cb, request_, handled, shutdowns>>
           ELSE /\ handled' = [handled EXCEPT ![s] = request_[s]]
                /\ exec' = [exec EXCEPT ![s] = "OnRead"]
                /\ cb' = [cb EXCEPT ![s] = "held"]
                /\ refs' = [refs EXCEPT ![s] = @ + 1]
                /\ UNCHANGED <<request_, timer, shutdowns, reports>>
    /\ UNCHANGED <<hvars, kvars, lvars, cvars, ops, offWrite, cbInvoked, wresp, reads, writes, sent>>

\* The request handler invokes its callback in place and returns: the lambda
\* of Session::HandleRequest calls Write on the strand's thread, inside
\* OnRead; the write's handler takes a reference (Write's local self is
\* created and destroyed within this step); the lambda (a temporary of
\* Session::HandleRequest) and the handler bound to OnRead drop theirs.
HandlerSend(s) ==
    /\ exec[s] = "OnRead"
    /\ cb[s] = "held"
    /\ cb' = [cb EXCEPT ![s] = "none"]
    /\ exec' = [exec EXCEPT ![s] = "none"]
    /\ Write(s, HandleRequest(handled[s]))
    /\ handled' = [handled EXCEPT ![s] = NoReq]
    /\ refs' = [refs EXCEPT ![s] = @ + 1 - 2]
    /\ UNCHANGED <<hvars, kvars, lvars, cvars, queue, offWrite, cbInvoked, request_, timer, reads,
                   shutdowns, reports, sent>>

\* The request handler moves its callback into a task of another thread
\* instead, and goes on running.
HandlerDefer(s) ==
    /\ exec[s] = "OnRead"
    /\ cb[s] = "held"
    /\ cb' = [cb EXCEPT ![s] = "task"]
    /\ UNCHANGED <<hvars, kvars, lvars, cvars, ops, queue, exec, offWrite, cbInvoked, request_,
                   handled, wresp, timer, refs, reads, writes, shutdowns, reports,
                   sent>>

\* The request handler that deferred its callback returns, and OnRead with
\* it: the handler bound to OnRead drops its reference.
HandlerReturn(s) ==
    /\ exec[s] = "OnRead"
    /\ cb[s] # "held"
    /\ exec' = [exec EXCEPT ![s] = "none"]
    /\ refs' = [refs EXCEPT ![s] = @ - 1]
    /\ UNCHANGED <<hvars, kvars, lvars, cvars, ops, queue, cb, offWrite, cbInvoked, request_,
                   handled, wresp, timer, reads, writes, shutdowns, reports, sent>>

\* The task that owns the callback invokes it on its own thread: Write
\* starts there, whatever the strand of the session is doing.  Inside Write
\* the local self (GetSharedThis) and the copy of it in the write's handler
\* are two more references, beside the one of the callback being invoked.
\* The tasks of earlier requests of the session may still be inside Write
\* or own the callbacks they have invoked.
TaskSendBegin(s) ==
    /\ cb[s] = "task"
    /\ cb' = [cb EXCEPT ![s] = "none"]
    /\ offWrite' = [offWrite EXCEPT ![s] = @ + 1]
    /\ cbInvoked' = [cbInvoked EXCEPT ![s] = @ + 1]
    /\ Write(s, HandleRequest(handled[s]))
    /\ handled' = [handled EXCEPT ![s] = NoReq]
    /\ refs' = [refs EXCEPT ![s] = @ + 2]
    /\ UNCHANGED <<hvars, kvars, lvars, cvars, queue, exec, request_, timer,
                   reads, shutdowns, reports, sent>>

\* Write returns to the callback on the thread of one of the tasks: its
\* local self goes out of scope.  The task still owns the callback.
TaskWriteReturn(s) ==
    /\ offWrite[s] > 0
    /\ offWrite' = [offWrite EXCEPT ![s] = @ - 1]
    /\ Release(s)
    /\ UNCHANGED <<hvars, kvars, lvars, cvars, ops, queue, exec, cb, cbInvoked,
                   request_, handled, wresp, reads, writes, shutdowns, reports,
                   sent>>

\* A task whose callback has returned from Write destroys the callback,
\* and the reference the callback captured with it.
TaskSendEnd(s) ==
    /\ cbInvoked[s] > offWrite[s]
    /\ cbInvoked' = [cbInvoked EXCEPT ![s] = @ - 1]
    /\ Release(s)
    /\ UNCHANGED <<hvars, kvars, lvars, cvars, ops, queue, exec, cb, offWrite,
                   request_, handled, wresp, reads, writes, shutdowns, reports,
                   sent>>

\* SessionBase::OnWrite(safe_response->need_eof(), ec, bytes_written).
OnWrite(s) ==
    /\ CanRun(s)
    /\ Head(queue[s]).h = "OnWrite"
    /\ queue' = [queue EXCEPT ![s] = Tail(@)]
    /\ LET ec == Head(queue[s]).ec
           close == NeedEof(Head(queue[s]).resp)
       IN  IF Failed(ec)
           THEN /\ ReportError(s, ec, "write")
                /\ Release(s)
                /\ UNCHANGED <<request_, ops, reads, shutdowns>>
           ELSE IF close
           THEN /\ Close(s)
                /\ Release(s)
                /\ UNCHANGED <<request_, ops, reads, reports>>
           ELSE /\ Read(s)
                /\ refs' = [refs EXCEPT ![s] = @ + 1 - 1]
                /\ UNCHANGED <<shutdowns, reports>>
    /\ UNCHANGED <<hvars, kvars, lvars, cvars, exec, cb, offWrite, cbInvoked, handled, wresp,
                   writes, sent>>

(* ------------------------------ cafeteria ------------------------------ *)

\* Error codes a completed timer wait carries.
TimerCodes == {"ok", "operation_aborted"}

\* A measured cooking duration, against the range HotDog allows.
Durations == {"in_range", "out_of_range"}

\* Where the body of OrderHotDog throws a std::exception, if it does:
\*   before_move : lines 36-43, handler not yet moved into handler_ptr;
\*   after_move  : lines 44-76, before StartBake has taken the bread;
\*   start_fry   : StartFry throws, the bread is already with the cooker.
OrderFaults == {"none", "before_move", "after_move", "start_fry"}

\* What throws a std::exception inside the try of check_completion:
\*   before_handler : a statement that precedes the invocation of the handler;
\*   handler        : the handler itself, while it is invoked.
CheckFaults == {"none", "before_handler", "handler"}

\* Whether the handler throws when a catch block invokes it with the caught
\* exception: nothing catches that, it leaves the function of the catch.
HandlerThrows == BOOLEAN

\* Result<HotDog>(std::make_exception_ptr(e)) for a caught std::exception.
ExceptionResult == [hot_dog |-> NoId, error |-> "std::exception"]

\* One invocation of the order's handler, recorded with the flags as they
\* are when it is made.
Invocation(o, result) ==
    [result |-> result, bread_done |-> bread_done[o],
     sausage_done |-> sausage_done[o]]

\* Timer completion handlers of the cafeteria that a worker thread is
\* running: they have set their flag and have yet to run check_completion
\* ("check"), or are inside it between the handler's throw and the catch's
\* invocation of the handler ("catch").
CafeteriaBusy ==
    Cardinality({o \in Orders : cook[o].bread \in {"check", "catch"}})
    + Cardinality({o \in Orders : cook[o].sausage \in {"check", "catch"}})

\* io_.run() on some worker thread can take the next ready handler.
CafeteriaThreadFree == CafeteriaBusy < nthreads

\* Cafeteria::OrderHotDog is entered by some thread and takes the bread id:
\* next_id_.fetch_add(1).  Other calls may run between the fetch_adds.
OrderTakeBreadId(o) ==
    /\ o = ordered + 1
    /\ o <= MaxOrders
    /\ ordered' = o
    /\ bread_id' = [bread_id EXCEPT ![o] = next_id_]
    /\ next_id_' = next_id_ + 1
    /\ call' = [call EXCEPT ![o] = "bread_id"]
    /\ UNCHANGED <<hvars, lvars, cvars, svars, sausage_id, hotdog_id, cook,
                   bread_done, sausage_done, delivered>>

\* The second fetch_add of the call: the sausage id.
OrderTakeSausageId(o) ==
    /\ call[o] = "bread_id"
    /\ sausage_id' = [sausage_id EXCEPT ![o] = next_id_]
    /\ next_id_' = next_id_ + 1
    /\ call' = [call EXCEPT ![o] = "sausage_id"]
    /\ UNCHANGED <<hvars, lvars, cvars, svars, ordered, bread_id, hotdog_id, cook,
                   bread_done, sausage_done, delivered>>

\* The third fetch_add and the rest of OrderHotDog.  Without a fault the
\* flags are made false and StartBake and StartFry are called; the cooker
\* calls their handlers when it has a burner for them.  When the body
\* throws, the catch invokes handler: before the move that is the order's
\* handler, invoked with the exception while nothing is cooked, and when it
\* throws in turn its exception leaves OrderHotDog; after the move handler
\* is empty and std::bad_function_call leaves OrderHotDog.
OrderStart(o, fault, handler_throws) ==
    /\ call[o] = "sausage_id"
    /\ handler_throws => fault = "before_move"
    /\ hotdog_id' = [hotdog_id EXCEPT ![o] = next_id_]
    /\ next_id_' = next_id_ + 1
    /\ bread_done' = [bread_done EXCEPT ![o] = FALSE]
    /\ sausage_done' = [sausage_done EXCEPT ![o] = FALSE]
    /\ CASE fault = "none" ->
              /\ cook' = [cook EXCEPT ![o] = [bread |-> "waiting", sausage |-> "waiting"]]
              /\ call' = [call EXCEPT ![o] = "returned"]
              /\ UNCHANGED delivered
         [] fault = "before_move" ->
              /\ delivered' = [delivered EXCEPT ![o] =
                                  Append(@, Invocation(o, ExceptionResult))]
              /\ call' = [call EXCEPT ![o] = IF handler_throws
                                              THEN "handler_exception"
                                              ELSE "returned"]
              /\ UNCHANGED cook
         [] fault = "after_move" ->
              /\ call' = [call EXCEPT ![o] = "bad_function_call"]
              /\ UNCHANGED <<cook, delivered>>
         [] OTHER ->
              /\ cook' = [cook EXCEPT ![o].bread = "waiting"]
              /\ call' = [call EXCEPT ![o] = "bad_function_call"]
              /\ UNCHANGED delivered
    /\ UNCHANGED <<hvars, lvars, cvars, svars, ordered, bread_id, sausage_id>>

\* The handler given to StartBake: the bread is on a burner and its timer
\* is armed.
BreadStart(o) ==
    /\ cook[o].bread = "waiting"
    /\ cook' = [cook EXCEPT ![o].bread = "cooking"]
    /\ UNCHANGED <<hvars, lvars, cvars, svars, ordered, next_id_, call, bread_id,
                   sausage_id, hotdog_id, bread_done, sausage_done, delivered>>

\* The handler given to StartFry: the sausage is on a burner and its timer
\* is armed.
SausageStart(o) ==
    /\ cook[o].sausage = "waiting"
    /\ cook' = [cook EXCEPT ![o].sausage = "cooking"]
    /\ UNCHANGED <<hvars, lvars, cvars, svars, ordered, next_id_, call, bread_id,
                   sausage_id, hotdog_id, bread_done, sausage_done, delivered>>

\* The bread timer's completion handler up to the call of check_completion,
\* on a free worker thread: if (ec) return; StopBaking; *bread_done = true.
BreadTimer(o, ec) ==
    /\ cook[o].bread = "cooking"
    /\ CafeteriaThreadFree
    /\ IF ec # "ok"
       THEN /\ cook' = [cook EXCEPT ![o].bread = "done"]
            /\ UNCHANGED bread_done
       ELSE /\ cook' = [cook EXCEPT ![o].bread = "check"]
            /\ bread_done' = [bread_done EXCEPT ![o] = TRUE]
    /\ UNCHANGED <<hvars, lvars, cvars, svars, ordered, next_id_, call, bread_id,
                   sausage_id, hotdog_id, sausage_done, delivered>>

\* The sausage timer's completion handler up to the call of
\* check_completion: if (ec) return; StopFry; *sausage_done = true.
SausageTimer(o, ec) ==
    /\ cook[o].sausage = "cooking"
    /\ CafeteriaThreadFree
    /\ IF ec # "ok"
       THEN /\ cook' = [cook EXCEPT ![o].sausage = "done"]
            /\ UNCHANGED sausage_done
       ELSE /\ cook' = [cook EXCEPT ![o].sausage = "check"]
            /\ sausage_done' = [sausage_done EXCEPT ![o] = TRUE]
    /\ UNCHANGED <<hvars, lvars, cvars, svars, ordered, next_id_, call, bread_id,
                   sausage_id, hotdog_id, bread_done, delivered>>

\* What check_completion passes to the handler, given the two durations.
HotDogResult(o, bread_time, sausage_time) ==
    IF bread_time = "out_of_range"
    THEN [hot_dog |-> NoId, error |-> "Bread cook duration out of range"]
    ELSE IF sausage_time = "out_of_range"
    THEN [hot_dog |-> NoId, error |-> "Sausage cook duration out of range"]
    ELSE [hot_dog |-> hotdog_id[o], error |-> ""]

\* *check_completion up to the end of its try block.  When both flags are
\* set the handler is invoked with the hot dog or with the error of a
\* duration out of range, unless a statement before the invocation throws.
\* The result is where the thread that runs it is then:
\*   "done"  : check_completion has returned;
\*   "catch" : a std::exception of the try block is caught, the catch block
\*             has yet to invoke the handler.
check_completion(o, bread_time, sausage_time, fault, stage) ==
    IF ~(bread_done[o] /\ sausage_done[o])
    THEN /\ stage = "done"
         /\ UNCHANGED delivered
    ELSE IF fault = "before_handler"
    THEN /\ stage = "catch"
         /\ UNCHANGED delivered
    ELSE /\ stage = (IF fault = "handler" THEN "catch" ELSE "done")
         /\ delivered' =
               [delivered EXCEPT ![o] =
                   Append(@, Invocation(o, HotDogResult(o, bread_time, sausage_time)))]

\* The catch block of check_completion: the handler is invoked with the
\* caught exception.  When it throws now, the exception leaves
\* check_completion and the timer's completion handler ("threw"), and
\* io_.run() on the thread that ran it.
check_completion_catch(o, handler_throws, stage) ==
    /\ stage = (IF handler_throws THEN "threw" ELSE "done")
    /\ delivered' = [delivered EXCEPT ![o] = Append(@, Invocation(o, ExceptionResult))]

\* The bread timer's completion handler runs (*check_completion)() as far
\* as the end of the try block.
BreadCheck(o) ==
    /\ cook[o].bread = "check"
    /\ \E bt, st \in Durations : \E fault \in CheckFaults :
       \E stage \in {"done", "catch"} :
          /\ check_completion(o, bt, st, fault, stage)
          /\ cook' = [cook EXCEPT ![o].bread = stage]
    /\ UNCHANGED <<hvars, lvars, cvars, svars, ordered, next_id_, call, bread_id,
                   sausage_id, hotdog_id, bread_done, sausage_done>>

\* The bread timer's completion handler is in the catch block of
\* check_completion.
BreadCatch(o, handler_throws) ==
    /\ cook[o].bread = "catch"
    /\ \E stage \in {"done", "threw"} :
          /\ check_completion_catch(o, handler_throws, stage)
          /\ cook' = [cook EXCEPT ![o].bread = stage]
    /\ UNCHANGED <<hvars, lvars, cvars, svars, ordered, next_id_, call, bread_id,
                   sausage_id, hotdog_id, bread_done, sausage_done>>

\* The sausage timer's completion handler runs (*check_completion)() as far
\* as the end of the try block.
SausageCheck(o) ==
    /\ cook[o].sausage = "check"
    /\ \E bt, st \in Durations : \E fault \in CheckFaults :
       \E stage \in {"done", "catch"} :
          /\ check_completion(o, bt, st, fault, stage)
          /\ cook' = [cook EXCEPT ![o].sausage = stage]
    /\ UNCHANGED <<hvars, lvars, cvars, svars, ordered, next_id_, call, bread_id,
                   sausage_id, hotdog_id, bread_done, sausage_done>>

\* The sausage timer's completion handler is in the catch block of
\* check_completion.
SausageCatch(o, handler_throws) ==
    /\ cook[o].sausage = "catch"
    /\ \E stage \in {"done", "threw"} :
          /\ check_completion_catch(o, handler_throws, stage)
          /\ cook' = [cook EXCEPT ![o].sausage = stage]
    /\ UNCHANGED <<hvars, lvars, cvars, svars, ordered, next_id_, call, bread_id,
                   sausage_id, hotdog_id, bread_done, sausage_done>>

(* --------------------------- specifications ---------------------------- *)

Next ==
    \/ \E ec \in {"ok", "error"} : OnAccept(ec)
    \/ \E s \in Sessions : \E ec \in ReadCodes : \E r \in ClientRequests :
          ReadComplete(s, ec, r)
    \/ \E s \in Sessions : \E ec \in WriteCodes : WriteComplete(s, ec)
    \/ \E s \in Sessions : OnRead(s)
    \/ \E s \in Sessions : HandlerSend(s)
    \/ \E s \in Sessions : HandlerDefer(s)
    \/ \E s \in Sessions : HandlerReturn(s)
    \/ \E s \in Sessions : TaskSendBegin(s)
    \/ \E s \in Sessions : TaskWriteReturn(s)
    \/ \E s \in Sessions : TaskSendEnd(s)
    \/ \E s \in Sessions : OnWrite(s)

Spec == Init /\ [][Next]_vars

\* HandleRequest alone, on every request of the bounded request set.
InitHandler ==
    /\ hreq \in Requests
    /\ hresp = NoResp
    /\ nthreads = 1
    /\ InitServer
    /\ InitCafeteria

CallHandleRequest ==
    /\ hresp = NoResp
    /\ hresp' = HandleRequest(hreq)
    /\ UNCHANGED <<hreq, lvars, cvars, svars, kvars>>

NextHandler == CallHandleRequest

SpecHandler == InitHandler /\ [][NextHandler]_vars

\* The cafeteria alone, its io_context run by one or MaxThreads worker
\* threads.
NextCafeteria ==
    \/ \E o \in Orders : OrderTakeBreadId(o)
    \/ \E o \in Orders : OrderTakeSausageId(o)
    \/ \E o \in Orders : \E fault \in OrderFaults : \E handler_throws \in HandlerThrows :
          OrderStart(o, fault, handler_throws)
    \/ \E o \in Orders : BreadStart(o)
    \/ \E o \in Orders : SausageStart(o)
    \/ \E o \in Orders : \E ec \in TimerCodes : BreadTimer(o, ec)
    \/ \E o \in Orders : \E ec \in TimerCodes : SausageTimer(o, ec)
    \/ \E o \in Orders : BreadCheck(o)
    \/ \E o \in Orders : SausageCheck(o)
    \/ \E o \in Orders : \E handler_throws \in HandlerThrows : BreadCatch(o, handler_throws)
    \/ \E o \in Orders : \E handler_throws \in HandlerThrows : SausageCatch(o, handler_throws)

SpecCafeteria == Init /\ [][NextCafeteria]_vars


(* ------------------------------ properties ----------------------------- *)

\* The step taken is session s's strand invoking its next ready handler,
\* which is bound to callback h.
Runs(s, h) ==
    /\ queue[s] # <<>>
    /\ Head(queue[s]).h = h
    /\ queue'[s] = Tail(queue[s])

\* The error code and the response the next ready handler of s carries.
NextEc(s) == Head(queue[s]).ec

NextResp(s) == Head(queue[s]).resp

\* A completion handler of s is ready and its strand is not running one.
Pending(s) == s <= created /\ queue[s] # <<>> /\ exec[s] = "none"

\* The request handler of s has the request and has not yet produced the
\* response: it is running, or its deferred callback has not been invoked.
Handling(s) == exec[s] = "OnRead" \/ cb[s] = "task"

\* The strand of s invokes the next ready handler.
RunHandler(s) == OnRead(s) \/ OnWrite(s)

\* C1. Keep-alive loop: when OnWrite runs for a write that completed without
\* error and whose response is keep-alive, it issues a new read on the same
\* connection and does not shut the connection down; the session stays alive.
C1_KeepAliveLoop ==
    [][\A s \in Sessions :
          (Runs(s, "OnWrite") /\ NextEc(s) = "ok" /\ KeepAlive(NextResp(s)))
          => /\ "read" \in ops'[s]
             /\ reads'[s] = reads[s] + 1
             /\ shutdowns'[s] = 0
             /\ refs'[s] > 0]_vars

\* C1 witness: after one response was written the session reads again, not
\* shut down.
C1_Witness ==
    \E s \in Sessions :
        /\ Len(sent[s]) = 1
        /\ KeepAlive(sent[s][1])
        /\ reads[s] = 2
        /\ "read" \in ops[s]
        /\ shutdowns[s] = 0

\* C2. Close invariant: when OnWrite runs for a successfully written response
\* that is not keep-alive, or OnRead runs for a clean end of stream, the send
\* half is shut down, for the first time; and once it has been shut down the
\* session never shuts down again, issues no read and has no operation
\* outstanding.
C2_CloseOnce ==
    [][\A s \in Sessions :
          /\ (\/ (Runs(s, "OnWrite") /\ NextEc(s) = "ok" /\ ~KeepAlive(NextResp(s)))
              \/ (Runs(s, "OnRead") /\ NextEc(s) = "end_of_stream"))
             => /\ shutdowns[s] = 0
                /\ shutdowns'[s] = 1
                /\ reads'[s] = reads[s]
          /\ shutdowns[s] >= 1
             => /\ shutdowns'[s] = shutdowns[s]
                /\ reads'[s] = reads[s]
                /\ ops'[s] = {}]_vars

\* C2 witness: one session shut down after writing a response that is not
\* keep-alive, another after the peer's clean end of stream.
C2_Witness ==
    \E s, u \in Sessions :
        /\ shutdowns[s] = 1
        /\ sent[s] # <<>>
        /\ ~KeepAlive(sent[s][Len(sent[s])])
        /\ shutdowns[u] = 1
        /\ peer[u] = "eof"
        /\ recvd[u] = <<>>

\* C3. Per-connection serialization: a session never has two asynchronous
\* operations outstanding, and Write (the handler's completion callback)
\* never executes while a callback of the same session is executing on its
\* strand.
C3_Serialized ==
    \A s \in Sessions :
        /\ Cardinality(ops[s]) <= 1
        /\ ~(offWrite[s] > 0 /\ exec[s] # "none")

\* C4 as claimed. Independent progress: while the handler of a session is
\* slow to produce its response, a pending completion of any other session
\* can be processed.
C4_IndependentProgress ==
    \A a, b \in Sessions :
        (a # b /\ Handling(a) /\ Pending(b)) => ENABLED RunHandler(b)

\* C4 as amended. While the handler of a session is slow to produce its
\* response, a pending completion of any other session can be processed
\* provided that a worker thread is idle.
C4_ProgressWithIdleThread ==
    \A a, b \in Sessions :
        (a # b /\ Handling(a) /\ Pending(b) /\ ThreadFree)
        => ENABLED RunHandler(b)

\* C4 witness: on a pool of one thread, the second session's request has
\* been answered while the first session's handler has yet to produce its
\* response (its deferred callback is not invoked yet).
C4_Witness ==
    /\ nthreads = 1
    /\ created = 2
    /\ cb[1] = "task"
    /\ exec[1] = "none"
    /\ writes[1] = 0
    /\ Len(sent[2]) = 1

\* C5. Accept errors are not fatal: once an accept error has been reported
\* the listener has another accept outstanding.
C5_AcceptErrorNotFatal == acceptErrs > 0 => accepting

\* C6. Timeout: when OnRead runs for a read aborted by the deadline, exactly
\* one error report is written for the connection, no read or write is
\* issued or left outstanding and the session is released (the handler drops
\* its reference, the last one unless a task still owns the callback of an
\* earlier request); and a destroyed session issues no read or write and
\* reports nothing more.
C6_TimeoutCloses ==
    [][\A s \in Sessions :
          /\ (Runs(s, "OnRead") /\ NextEc(s) = "timeout")
             => /\ reports[s] = <<>>
                /\ reports'[s] = <<[what |-> "read", ec |-> "timeout"]>>
                /\ reads'[s] = reads[s]
                /\ writes'[s] = writes[s]
                /\ ops'[s] = {}
                /\ queue'[s] = <<>>
                /\ refs'[s] = refs[s] - 1
                /\ cbInvoked[s] = 0 => refs'[s] = 0
          /\ (s <= created /\ refs[s] = 0)
             => /\ reports'[s] = reports[s]
                /\ reads'[s] = reads[s]
                /\ writes'[s] = writes[s]
                /\ refs'[s] = 0]_vars

\* C6 witness: a session to which no request was sent timed out in its first
\* read, reported once and is released.
C6_Witness ==
    \E s \in Sessions :
        /\ s <= created
        /\ recvd[s] = <<>>
        /\ reads[s] = 1
        /\ reports[s] = <<[what |-> "read", ec |-> "timeout"]>>
        /\ refs[s] = 0
        /\ ops[s] = {}

\* C7. Strict per-connection ordering: the i-th response written on a
\* connection is the handler's response to the i-th request received on it,
\* and the number of reads issued never exceeds the number of responses
\* completely written by more than one.
C7_StrictOrder ==
    \A s \in Sessions :
        /\ Len(sent[s]) <= nparsed[s]
        /\ \A i \in 1 .. Len(sent[s]) : sent[s][i] = HandleRequest(recvd[s][i])
        /\ reads[s] <= Len(sent[s]) + 1
        /\ nparsed[s] <= reads[s]

\* C7 witness: two different requests on one connection were both answered.
C7_Witness ==
    \E s \in Sessions :
        /\ Len(sent[s]) = 2
        /\ recvd[s][1] # recvd[s][2]
        /\ sent[s][1] # sent[s][2]

\* C8. GET policy: the response to a GET has status 200, content type
\* text/html, body "Hello, " followed by the raw target without one leading
\* '/', and Content-Length equal to the length of that body.
C8_GetPolicy ==
    (hresp # NoResp /\ hreq.method = "GET")
    => LET R == hreq.target
           T == IF Len(R) > 0 /\ R[1] = "/" THEN Tail(R) ELSE R
       IN  /\ hresp.status = 200
           /\ hresp.content_type = "text/html"
           /\ hresp.body = <<"H", "e", "l", "l", "o", ",", " ">> \o T
           /\ hresp.content_length = Len(hresp.body)

\* C8 witness: GET //a is answered "Hello, /a".
C8_Witness ==
    /\ hreq.method = "GET"
    /\ hreq.target = <<"/", "/", "a">>
    /\ hresp.body = <<"H", "e", "l", "l", "o", ",", " ", "/", "a">>
    /\ hresp.content_length = 9

\* C9. HEAD policy: the response to a HEAD has status 200, an empty body,
\* and the content type and Content-Length of the response to a GET of the
\* same target.
C9_HeadPolicy ==
    (hresp # NoResp /\ hreq.method = "HEAD")
    => LET get == HandleRequest([hreq EXCEPT !.method = "GET"])
       IN  /\ hresp.status = 200
           /\ hresp.body = <<>>
           /\ hresp.content_type = get.content_type
           /\ hresp.content_length = get.content_length
           /\ hresp.content_length = Len(get.body)

\* C9 witness: HEAD /a is answered with no body and Content-Length 8.
C9_Witness ==
    /\ hreq.method = "HEAD"
    /\ hreq.target = <<"/", "a">>
    /\ hresp.status = 200
    /\ hresp.body = <<>>
    /\ hresp.content_length = 8

\* C10. Method rejection: the response to a request that is neither GET nor
\* HEAD has status 405, Allow "GET, HEAD", body "Invalid method." and
\* Content-Length equal to the length of that body.
C10_MethodRejected ==
    (hresp # NoResp /\ hreq.method \notin {"GET", "HEAD"})
    => /\ hresp.status = 405
       /\ hresp.allow = "GET, HEAD"
       /\ hresp.body = <<"I", "n", "v", "a", "l", "i", "d", " ",
                         "m", "e", "t", "h", "o", "d", ".">>
       /\ hresp.content_length = Len(hresp.body)

\* C10 witness: a POST is answered 405 with a body of 15 characters.
C10_Witness ==
    /\ hreq.method = "POST"
    /\ hresp.status = 405
    /\ hresp.allow = "GET, HEAD"
    /\ hresp.content_length = 15

\* C11. Keep-alive propagation: on every branch of HandleRequest the
\* keep-alive of the response (read off its version and Connection field)
\* is true for an HTTP/1.1 request unless it declares Connection: close and
\* false for an HTTP/1.0 request unless it declares keep-alive.
C11_KeepAlivePropagation ==
    hresp # NoResp
    => LET negotiated == IF hreq.version = 11
                         THEN hreq.connection # "close"
                         ELSE hreq.connection = "keep-alive"
           answered == IF hresp.version = 11
                       THEN hresp.connection # "close"
                       ELSE hresp.connection = "keep-alive"
       IN  /\ hresp.version = hreq.version
           /\ answered = negotiated

\* C11 witness: an HTTP/1.0 HEAD that declares keep-alive is answered
\* keep-alive.
C11_Witness ==
    /\ hreq.method = "HEAD"
    /\ hreq.version = 10
    /\ hreq.connection = "keep-alive"
    /\ hresp.status = 200
    /\ hresp.connection = "keep-alive"

\* C12. Read error closes the connection: when OnRead runs for a read that
\* completed with an error other than end of stream, the error is reported
\* and the send half of the connection is shut down, as on the other
\* terminal paths, and the handler's reference to the session is dropped.
C12_ReadErrorCloses ==
    [][\A s \in Sessions :
          (Runs(s, "OnRead") /\ NextEc(s) \notin {"ok", "end_of_stream"})
          => /\ reports'[s] = Append(reports[s], [what |-> "read", ec |-> NextEc(s)])
             /\ shutdowns'[s] = shutdowns[s] + 1
             /\ refs'[s] = refs[s] - 1]_vars

\* C13. Write outcome closes the connection: when OnWrite runs for a write
\* that completed with an error, or without error for a response that is not
\* keep-alive, the send half of the connection is shut down, the handler's
\* reference to the session is dropped and no read is issued.
C13_WriteOutcomeCloses ==
    [][\A s \in Sessions :
          (Runs(s, "OnWrite") /\ (NextEc(s) # "ok" \/ ~KeepAlive(NextResp(s))))
          => /\ shutdowns'[s] = shutdowns[s] + 1
             /\ reads'[s] = reads[s]
             /\ "read" \notin ops'[s]
             /\ refs'[s] = refs[s] - 1]_vars

\* The session s has run one of its terminal paths: Close (end of stream,
\* or a written response that asks to close) or an error report (read or
\* write error).
Terminated(s) == shutdowns[s] >= 1 \/ reports[s] # <<>>

\* C14 as claimed. Session lifetime: a session with a read or a write
\* outstanding, a completion handler ready, or a handler callback that was
\* not invoked yet has at least one strong reference; a session that has run
\* a terminal path and has no operation outstanding has no reference left
\* and is destroyed (its stream and deadline with it).
C14_SessionLifetime ==
    \A s \in Sessions :
        /\ (ops[s] # {} \/ queue[s] # <<>> \/ cb[s] # "none") => refs[s] >= 1
        /\ (Terminated(s) /\ ops[s] = {})
           => /\ refs[s] = 0
              /\ timer[s] = NoTimer
              /\ cb[s] = "none"

\* C14 as amended. The first half as claimed; a session that has run a
\* terminal path and has no operation outstanding is destroyed once every
\* thread that invoked a handler callback of the session has returned from
\* Write and destroyed the callback: until then the references of those
\* threads, and no other, keep the session alive (for each, Write's local
\* self until Write returns and the callback's captured pointer until the
\* callback is destroyed).
C14_LifetimeUntilCallbackDestroyed ==
    \A s \in Sessions :
        /\ (ops[s] # {} \/ queue[s] # <<>> \/ cb[s] # "none") => refs[s] >= 1
        /\ (Terminated(s) /\ ops[s] = {})
           => /\ cb[s] = "none"
              /\ refs[s] = offWrite[s] + cbInvoked[s]
              /\ refs[s] = 0 => timer[s] = NoTimer

\* C14 witness: one session is destroyed after it closed behind a written
\* response, while another has closed behind its response and is kept alive
\* by nothing but the callback, which the task that invoked it still owns
\* after Write has returned.
C14_Witness ==
    \E s, u \in Sessions :
        /\ sent[s] # <<>>
        /\ shutdowns[s] = 1
        /\ refs[s] = 0
        /\ sent[u] # <<>>
        /\ shutdowns[u] = 1
        /\ ops[u] = {}
        /\ cbInvoked[u] = 1
        /\ offWrite[u] = 0
        /\ refs[u] = 1

\* C15. Clean end of stream is benign: when OnRead runs for a read that
\* completed with end of stream, the session closes (shuts down the send
\* half and drops the handler's reference), the request handler is not
\* invoked, no write is issued and nothing is reported.
C15_CleanEofBenign ==
    [][\A s \in Sessions :
          (Runs(s, "OnRead") /\ NextEc(s) = "end_of_stream")
          => /\ shutdowns'[s] = shutdowns[s] + 1
             /\ refs'[s] = refs[s] - 1
             /\ exec'[s] = "none"
             /\ cb'[s] = "none"
             /\ handled'[s] = NoReq
             /\ writes'[s] = writes[s]
             /\ "write" \notin ops'[s]
             /\ sent'[s] = sent[s]
             /\ reports'[s] = reports[s]]_vars

\* C15 witness: the peer closed after one answered request; the session
\* closed behind it with one response written and no report.
C15_Witness ==
    \E s \in Sessions :
        /\ peer[s] = "eof"
        /\ Len(recvd[s]) = 1
        /\ Len(sent[s]) = 1
        /\ writes[s] = 1
        /\ shutdowns[s] = 1
        /\ reports[s] = <<>>
        /\ refs[s] = 0

\* C16. Failed reads produce no response: when OnRead runs for a read that
\* completed with an error other than end of stream (a malformed request
\* among them), the request handler is not invoked, no write is issued, the
\* handler returns (the strand is idle again and the listener is untouched)
\* and drops its reference; a session that has reported an error never
\* writes.
C16_FailedReadNoResponse ==
    [][\A s \in Sessions :
          /\ (Runs(s, "OnRead") /\ NextEc(s) \notin {"ok", "end_of_stream"})
             => /\ exec'[s] = "none"
                /\ cb'[s] = "none"
                /\ handled'[s] = NoReq
                /\ writes'[s] = writes[s]
                /\ "write" \notin ops'[s]
                /\ sent'[s] = sent[s]
                /\ refs'[s] = refs[s] - 1
                /\ accepting' = accepting
          /\ reports[s] # <<>>
             => /\ writes'[s] = writes[s]
                /\ exec'[s] = "none"
                /\ cb'[s] = "none"]_vars

\* C16 witness: a connection whose second read failed with an error has one
\* response written, for the first request, and is released.
C16_Witness ==
    \E s \in Sessions :
        /\ reads[s] = 2
        /\ reports[s] = <<[what |-> "read", ec |-> "error"]>>
        /\ writes[s] = 1
        /\ Len(sent[s]) = 1
        /\ refs[s] = 0

\* C17. No write timeout: no write completes with a timeout, that is, no
\* handler bound to OnWrite carries the timeout error and no write error
\* report names it.
C17_NoWriteTimeout ==
    \A s \in Sessions :
        /\ \A i \in 1 .. Len(queue[s]) :
              ~(queue[s][i].h = "OnWrite" /\ queue[s][i].ec = "timeout")
        /\ \A i \in 1 .. Len(reports[s]) :
              reports[s][i] # [what |-> "write", ec |-> "timeout"]

\* C18. Synchronous or deferred completion: for every parsed request at most
\* one write is issued, and by the time the next read is issued exactly one,
\* carrying the handler's response to that request; no read is issued
\* between the parse and the completion of that write; and the call of Write
\* overlaps no callback running on the strand of the same session.
C18_OneWritePerRequest ==
    \A s \in Sessions :
        /\ writes[s] <= nparsed[s]
        /\ "write" \in ops[s] => wresp[s] = HandleRequest(recvd[s][writes[s]])
        /\ reads[s] <= Len(sent[s]) + 1
        /\ "read" \in ops[s] => writes[s] = nparsed[s]
        /\ ("write" \in ops[s] \/ Handling(s)) => "read" \notin ops[s]
        /\ offWrite[s] > 0 => exec[s] = "none"

\* Accept operations issued and not yet completed.
AcceptsOutstanding == issued - (created + acceptErrs)

\* C19. Accept loop: a step creates at most one session; the step that
\* creates one is a successful accept completion, which gives the new
\* session the socket of the accept that completed, starts it (its first
\* read is issued, whose handler holds the only reference), leaves every
\* other session untouched and issues the next accept in the same step, whatever the state
\* of the sessions; no two sessions own the same connection and at most one
\* accept is outstanding.
C19_AcceptLoop ==
    [][/\ created' \in {created, created + 1}
       /\ created' = created + 1
          => /\ accepting /\ AcceptsOutstanding = 1
             /\ conn'[created'] = issued
             /\ ops'[created'] = {"read"}
             /\ reads'[created'] = 1
             /\ queue'[created'] = <<>>
             /\ refs'[created'] = 1
             /\ \A t \in Sessions \ {created'} :
                   /\ conn'[t] = conn[t]
                   /\ queue'[t] = queue[t]
                   /\ refs'[t] = refs[t]
                   /\ ops'[t] = ops[t]
                   /\ exec'[t] = exec[t]
             /\ accepting'
             /\ issued' = issued + 1
       /\ issued' - (created' + acceptErrs') \in {0, 1}
       /\ accepting' <=> issued' - (created' + acceptErrs') = 1
       /\ \A s, t \in 1 .. created' : s # t => conn'[s] # conn'[t]
       /\ \A s \in Sessions : s > created' <=> conn'[s] = 0]_vars

\* C19 witness: the second connection was accepted and a third accept is
\* outstanding while the first session's handler has still to produce its
\* response.
C19_Witness ==
    /\ created = 2
    /\ conn[1] = 1
    /\ conn[2] = 2
    /\ issued = 3
    /\ accepting
    /\ AcceptsOutstanding = 1
    /\ Handling(1)
    /\ writes[1] = 0
    /\ refs[2] = 1

\* C20. Cafeteria single completion: the handler of every order is invoked
\* at most once, and only when both the bread and the sausage are done.
C20_SingleCompletion ==
    \A o \in Orders :
        /\ Len(delivered[o]) <= 1
        /\ \A i \in 1 .. Len(delivered[o]) :
              delivered[o][i].bread_done /\ delivered[o][i].sausage_done

====
